---- MODULE Spec2Model ----
(***************************************************************************)
(* MiniSat: bridge between a satellite tracker (hamlib rotctld / rigctld   *)
(* line protocols over TCP), an az/el rotator controller (UDP) and a       *)
(* transceiver (CAT).                                                      *)
(*                                                                         *)
(* The rotator service RotIf (rotif.py), its command queue, the controller *)
(* on the UDP wire and the coordinator tick (rotui.py) are common to three *)
(* specifications, which differ in who else produces commands:             *)
(*   Spec       the operator (calibrate, home), with position events;      *)
(*   SpecSat    the rotator protocol server (satif.py), with position      *)
(*              events;                                                    *)
(*   SpecQueue  the operator and the rotator protocol server together.     *)
(* A fourth specification covers the rig side:                             *)
(*   SpecRig    the rig protocol server (rigif.py) with the operator's     *)
(*              manual PTT.                                                *)
(* Each specification leaves the other side's variables unchanged.         *)
(***************************************************************************)
EXTENDS Integers, Sequences, FiniteSets, TLC

(***************************************************************************)
(* Bounds of the model (not program constants).                            *)
(***************************************************************************)
\* longest command queue the producers are allowed to build
MaxQueue == 2
\* datagrams of finished exchanges that may still be under way (late replies)
MaxLate == 1
\* commands of the tracker that may be waiting for their reply
MaxOutstanding == 1

(***************************************************************************)
(* Program constants (defs.py).                                            *)
(***************************************************************************)
ONLINE == 0
OFFLINE == 1
PENDING == 2
STARTING_CAL == 3
CAL_FAILED == 4
FAILED == 5
WAITING == 6
\* rotui.py uses CAL_MANUAL but defs.py does not define it; the spec lists
\* cal-manual as a status of its own
CAL_MANUAL == 7
AZ_MOTOR_SPEED == 30
EL_MOTOR_SPEED == 20
PING_TICKER_1 == 20
PING_TICKER_2 == 50

\* the persisted calibration record, when there is one (spec, scenario 1)
SavedCal == [AZ |-> "12345", EL |-> "6789"]
\* "%sa" % calibration: the number the controller reads in the datagram, -1 for
\* a text that is no number
Pulses(v) ==
    CASE v = "12345" -> 12345
      [] v = "6789" -> 6789
      [] v = "12000" -> 12000
      [] OTHER -> -1

(***************************************************************************)
(* Values.                                                                 *)
(***************************************************************************)
\* a rotator command as queued: (cmd, args) and, as a ghost, its producer
Cmd(c, a, b, s) == [cmd |-> c, a |-> a, b |-> b, src |-> s]
NoCmd == Cmd("none", 0, 0, "none")

\* a datagram "<n><op>" (or the bare word op when it takes no number)
Dg(op, n) == [op |-> op, n |-> n]


\* replies of the controller: "ack", "nak", or a payload (a pulse count)
CalPayloads == {"12000"}
\* the value an uncalibrated axis has (the integer -1, which no reply string equals)
NoCal == "-1"

\* '%f' % float(n) for an integer n: n followed by six zero decimals
FmtF(n) == [int |-> n, frac |-> 0]
\* the reply '%f\n%f\n' of getPos
PosReply(az, el) == [line |-> "pos", az |-> FmtF(az), el |-> FmtF(el)]
RPRT0 == [line |-> "RPRT 0", az |-> FmtF(0), el |-> FmtF(0)]

\* what the tracker sends as degrees, in tenths of a degree (1234 is "123.4")
AzInputs == {1234, 3599}
ElInputs == {456}
\* int(float(tok)): truncation towards zero
Trunc(t) == IF t >= 0 THEN t \div 10 ELSE -((-t) \div 10)

\* degrees reported by position events
EventDegs == {7}

\* frequencies the tracker sets: 100 kHz, 100 kHz + 1 Hz and 1 Hz apart
Freqs == {145800000, 145900000, 145900001}
\* a command handed to the CAT service
CatCmd(op, arg) == [op |-> op, arg |-> arg]
NoCat == CatCmd("none", 0)
\* a reply queued for the tracker and, as a ghost, the command it answers
Reply(to, line) == [to |-> to, line |-> line]
\* a position event "<what>:<value>" as passed to pos_callback
Event(what, value) == [what |-> what, value |-> value]
NoEvent == Event("none", 0)

VARIABLES
    \* ---- RotIf (rotif.py)
    status,      \* RotIf.__status
    calaz,       \* RotIf.__calaz
    calel,       \* RotIf.__calel
    degaz,       \* RotIf.__degaz
    degel,       \* RotIf.__degel
    lock,        \* RotIf.__lock is held
    rpc,         \* where the RotIf thread is: "idle" or the exchange it waits in
    cur,         \* the command the RotIf thread executes
    cmdq,        \* the rotator command queue
    \* ---- the UDP wire and the controller
    req,         \* requests the controller has not answered yet
    rx,          \* replies in the command socket's receive buffer
    lastAz,      \* ghost: the tracker setPosAz that completed last
    \* ---- the coordinator (rotui.py)
    state,       \* RotUI.__state
    lastState,   \* RotUI.__lastState
    ping_timer,  \* RotUI.__ping_timer
    cfg,         \* defs.config["Calibration"]: {} without AZ and EL, else {the record}
    ctx,         \* the context __setContext applied at the last tick
    rottrack,    \* the rotator tracking check box
    \* ---- the rotator protocol server (satif.py)
    satconn,     \* WAITING / ONLINE / OFFLINE as reported by the listener
    azimuth,     \* SatIf.__azimuth
    elevation,   \* SatIf.__elevation
    sendq,       \* SatIf.__sendq
    spc,         \* where the listener's callback is
    sin,         \* the P command the callback is handling
    lastPos,     \* ghost: {} after a P, else what the last getPos of the tracker
                 \* replied and the rotator state it saw
    \* ---- the rig protocol server (rigif.py) and the CAT service
    rigconn,     \* WAITING / ONLINE as reported by the rig listener
    ptt,         \* RigIf.__ptt
    rigPtt,      \* RigIf.__rigPtt
    lastFreq,    \* RigIf.__lastFreq: {} while the attribute does not exist, else {hz}
    restart,     \* RigIf.__restart
    rsendq,      \* RigIf.__sendq
    fpc,         \* where the rig listener's callback is
    freq,        \* the callback's local freq
    mpc,         \* where the operator's thread is in manualSetPtt
    cat,         \* what was handed to the CAT service last, with an alternating bit
    hist,        \* ghost: "intent" once PTT was set on, "jump" once an F then moved
                 \* the frequency by more than 100 kHz
    rrun,        \* the RigIf thread: "loop" or "exited"
    rlisten,     \* the rig listener thread: "accept", "serve" or "exited"
    rpeer,       \* the tracker holds its end of the rig connection open
    catq,        \* the CAT response queue: (result, command, data) records
    \* ---- the application: event thread, queues to the UI, shutdown
    evntq,       \* RotUI.__evntq, as the set of the events waiting in it
    ev,          \* the position event __event_callback is handling
    msgq,        \* RotUI.__msgq, as the set of the messages of the protocol
                 \* servers waiting in it
    terminate,   \* RotIf.__terminate
    upc,         \* where the UI thread is: "run", or its place in close()
    \* ---- the life of the rotator protocol server
    satRestart,  \* SatIf.__restart
    srun,        \* the SatIf thread: "none" (no SatIf), "loop", "exited"
    slisten,     \* the listener thread: "none", "accept", "serve"
    lastSatTrackState, \* RotUI.__lastSatTrackState
    \* ---- the bytes on the tracker's connection to the rotator server
    sent,        \* the commands the tracker has written, in order
    pending,     \* what it has written and recv() has not returned yet
    handled,     \* what __listenCallback has made of the reads, in order
    \* ---- the life of the threads
    evrun,       \* the EvntIf thread: "loop", "exited" (left run()), "raised" (ended
                 \* by an exception)
    bad,         \* ghost: a malformed event datagram has been received
    port,        \* the rotator server's port: "free", or the text of the error
                 \* that bind() raises while another program holds it
    retry,       \* SatIf.__openSocket's retry
    sterm,       \* SatIf.__terminate
    again,       \* ghost: __trackChanged has run with the box checked while a SatIf
                 \* existed
    orphans      \* ghost: SatIf instances that RotUI.__satif has let go of while a
                 \* thread of theirs was running

rotVars == <<status, calaz, calel, degaz, degel, lock, rpc, cur, cmdq>>
wireVars == <<req, rx, lastAz>>
uiVars == <<state, lastState, ping_timer, cfg, ctx, rottrack>>
satVars == <<satconn, azimuth, elevation, sendq, spc, sin, lastPos>>
rigSrv == <<rrun, rlisten, rpeer, catq>>
rigVars == <<rigconn, ptt, rigPtt, lastFreq, restart, rsendq, fpc, freq, mpc, cat, hist,
            rigSrv>>
appVars == <<evntq, ev, msgq, terminate, upc>>
srvVars == <<satRestart, srun, slisten, lastSatTrackState>>
ioVars == <<sent, pending, handled>>
lifeVars == <<evrun, bad, port, retry, sterm, again, orphans>>
vars == <<rotVars, wireVars, uiVars, satVars, rigVars, appVars, srvVars, ioVars, lifeVars>>

\* "AZ" and "EL" are both in defs.config["Calibration"]
cfgCal == cfg # {}

(***************************************************************************)
(* RotIf: the code of each command, as a function of the thread's view of  *)
(* the rotator state.  A command runs from one blocking recvfrom to the    *)
(* next; s is the rotator state, and the result says where the thread      *)
(* goes: next is the exchange it starts, or "ret" with the truth value of  *)
(* what the command returned to run().                                     *)
(***************************************************************************)
NoCb == -1
RS == [st |-> status, cb |-> NoCb, caz |-> calaz, cel |-> calel,
       daz |-> degaz, dl |-> degel, next |-> "ret", ret |-> TRUE]
Goto(s, l) == [s EXCEPT !.next = l]
Done(s, v) == [s EXCEPT !.next = "ret", !.ret = v]

\* "if not r or d == 'nak'"
Failed(ok, d) == ~ok \/ d = "nak"

\* state_callback(CAL_FAILED); status = CAL_FAILED; return False
CalFailed(s) == Done([s EXCEPT !.cb = CAL_FAILED, !.st = CAL_FAILED], FALSE)
\* state_callback(ONLINE); status = ONLINE; return True
GoOnline(s) == Done([s EXCEPT !.cb = ONLINE, !.st = ONLINE], TRUE)

\* a poll that would bring the rotator online by itself
pollOnline(s, ok, d) == IF ok THEN GoOnline(s) ELSE Done(s, TRUE)

\* poll, after __doCommand("poll") returned (ok, d): a tuple is returned, which is true
poll(s, ok, d) ==
    IF ok THEN Done([s EXCEPT !.cb = PENDING, !.st = PENDING], TRUE)
    ELSE Done(s, TRUE)

isOnLine(s, ok, d) ==
    IF ~ok THEN Done([s EXCEPT !.cb = OFFLINE, !.st = OFFLINE], TRUE)
    ELSE Done(s, TRUE)

\* calibrateAz / calibrateEl after the exchange: the state and the boolean returned
calibrateAz(s, ok, d) ==
    IF Failed(ok, d) THEN [s |-> s, r |-> FALSE]
    ELSE [s |-> [s EXCEPT !.daz = 0, !.caz = d], r |-> TRUE]

calibrateEl(s, ok, d) ==
    IF Failed(ok, d) THEN [s |-> s, r |-> FALSE]
    ELSE [s |-> [s EXCEPT !.dl = 0, !.cel = d], r |-> TRUE]

\* homeAz / homeEl after the exchange (wired) or after the early return taken
\* when the status is OFFLINE: the position is set to 0 whatever the reply
homeAz(s, wired) == IF wired THEN [s EXCEPT !.daz = 0] ELSE s
homeEl(s, wired) == IF wired THEN [s EXCEPT !.dl = 0] ELSE s

\* a cold start that would calibrate when a calibration is saved, and preset
\* when none is
coldStartCalibrate(s, l, ok, d) ==
    CASE l = "coldstart" ->
            IF s.st = OFFLINE THEN Done(s, TRUE) ELSE Goto(s, "cs_azspeed")
      [] l = "cs_azspeed" ->
            IF Failed(ok, d) THEN CalFailed(s) ELSE Goto(s, "cs_elspeed")
      [] l = "cs_elspeed" ->
            IF Failed(ok, d) THEN CalFailed(s)
            ELSE IF cfgCal THEN Goto(s, "cs_calaz") ELSE Goto(s, "cs_setcalaz")
      [] l = "cs_calaz" ->
            IF ~calibrateAz(s, ok, d).r THEN CalFailed(s)
            ELSE Goto(calibrateAz(s, ok, d).s, "cs_calel")
      [] l = "cs_calel" ->
            IF ~calibrateEl(s, ok, d).r THEN CalFailed(s)
            ELSE GoOnline(calibrateEl(s, ok, d).s)
      [] l = "cs_setcalaz" ->
            IF Failed(ok, d) THEN CalFailed(s) ELSE Goto(s, "cs_setcalel")
      [] OTHER -> \* "cs_setcalel"
            IF Failed(ok, d) THEN CalFailed(s) ELSE GoOnline(s)

\* coldStart, entered (l = "coldstart") or resumed after the exchange l
coldStart(s, l, ok, d) ==
    CASE l = "coldstart" ->
            IF s.st = OFFLINE THEN Done(s, TRUE) ELSE Goto(s, "cs_azspeed")
      [] l = "cs_azspeed" ->
            IF Failed(ok, d) THEN CalFailed(s) ELSE Goto(s, "cs_elspeed")
      [] l = "cs_elspeed" ->
            IF Failed(ok, d) THEN CalFailed(s)
            ELSE IF ~cfgCal THEN Goto(s, "cs_calaz") ELSE Goto(s, "cs_setcalaz")
      [] l = "cs_calaz" ->
            IF ~calibrateAz(s, ok, d).r THEN CalFailed(s)
            ELSE Goto(calibrateAz(s, ok, d).s, "cs_calel")
      [] l = "cs_calel" ->
            IF ~calibrateEl(s, ok, d).r THEN CalFailed(s)
            ELSE GoOnline(calibrateEl(s, ok, d).s)
      [] l = "cs_setcalaz" ->
            IF Failed(ok, d) THEN CalFailed(s) ELSE Goto(s, "cs_setcalel")
      [] OTHER -> \* "cs_setcalel"
            IF Failed(ok, d) THEN CalFailed(s) ELSE GoOnline(s)

\* setPosAz, entered (l = "setPosAz") or resumed after the exchange l
setPosAz(s, l, ok, d, wired) ==
    CASE l = "setPosAz" ->
            IF s.daz = -1 THEN Goto(s, "spaz_home") ELSE Goto(s, "spaz_move")
      [] l = "spaz_home" ->
            IF Failed(ok, d) THEN Done(homeAz(s, wired), TRUE)
            ELSE Goto([homeAz(s, wired) EXCEPT !.daz = 0], "spaz_move")
      [] OTHER -> \* "spaz_move"
            Done(s, TRUE)

setPosEl(s, l, ok, d, wired) ==
    CASE l = "setPosEl" ->
            IF s.dl = -1 THEN Goto(s, "spel_home") ELSE Goto(s, "spel_move")
      [] l = "spel_home" ->
            IF Failed(ok, d) THEN Done(homeEl(s, wired), TRUE)
            ELSE Goto([homeEl(s, wired) EXCEPT !.dl = 0], "spel_move")
      [] OTHER -> \* "spel_move"
            Done(s, TRUE)

\* the exchanges whose function starts with "if status == OFFLINE: return True, 'ack'"
OfflineGuarded ==
    {"cs_azspeed", "cs_elspeed", "cs_setcalaz", "cs_setcalel", "homeaz", "homeel",
     "spaz_home", "spel_home", "spaz_move", "spel_move"}

\* the code that follows the exchange l, whose __doCommand returned (ok, d)
After(s, l, ok, d, wired) ==
    CASE l = "poll" -> poll(s, ok, d)
      [] l = "isonline" -> isOnLine(s, ok, d)
      [] l \in {"cs_azspeed", "cs_elspeed", "cs_calaz", "cs_calel",
                "cs_setcalaz", "cs_setcalel"} -> coldStart(s, l, ok, d)
      [] l = "calaz" -> Done(calibrateAz(s, ok, d).s, calibrateAz(s, ok, d).r)
      [] l = "calel" -> Done(calibrateEl(s, ok, d).s, calibrateEl(s, ok, d).r)
      [] l = "homeaz" -> Done(homeAz(s, wired), TRUE)
      [] l = "homeel" -> Done(homeEl(s, wired), TRUE)
      [] l \in {"spaz_home", "spaz_move"} -> setPosAz(s, l, ok, d, wired)
      [] OTHER -> setPosEl(s, l, ok, d, wired)

\* the dispatch table: what run() calls for the queued command c
Lookup(s, c) ==
    CASE c.cmd = "poll" -> Goto(s, "poll")
      [] c.cmd = "isonline" -> Goto(s, "isonline")
      [] c.cmd = "coldstart" -> coldStart(s, "coldstart", TRUE, "ack")
      [] c.cmd = "getPos" -> Done(s, TRUE)
      [] c.cmd = "calibrateAz" -> Goto(s, "calaz")
      [] c.cmd = "calibrateEl" -> Goto(s, "calel")
      [] c.cmd = "homeAz" -> Goto(s, "homeaz")
      [] c.cmd = "homeEl" -> Goto(s, "homeel")
      [] c.cmd = "setPosAz" -> setPosAz(s, "setPosAz", TRUE, "ack", FALSE)
      [] OTHER -> setPosEl(s, "setPosEl", TRUE, "ack", FALSE)

\* run the code on from s up to the next exchange that really goes on the wire
\* (an OFFLINE-guarded function returns (True, 'ack') at once) or to the return
RECURSIVE Resolve(_)
Resolve(s) ==
    IF s.next # "ret" /\ s.next \in OfflineGuarded /\ s.st = OFFLINE
    THEN Resolve(After(s, s.next, TRUE, "ack", FALSE))
    ELSE s

\* the datagram of the exchange l of command c
DgFor(l, c) ==
    CASE l \in {"poll", "isonline"} -> Dg("poll", 0)
      [] l = "cs_azspeed" -> Dg("n", AZ_MOTOR_SPEED)
      [] l = "cs_elspeed" -> Dg("m", EL_MOTOR_SPEED)
      [] l = "cs_setcalaz" -> Dg("a", Pulses((CHOOSE r \in cfg : TRUE).AZ))
      [] l = "cs_setcalel" -> Dg("b", Pulses((CHOOSE r \in cfg : TRUE).EL))
      [] l \in {"cs_calaz", "calaz"} -> Dg("calaz", 0)
      [] l \in {"cs_calel", "calel"} -> Dg("calel", 0)
      [] l \in {"homeaz", "spaz_home"} -> Dg("homeaz", 0)
      [] l \in {"homeel", "spel_home"} -> Dg("homeel", 0)
      [] l = "spaz_move" -> Dg("z", c.a)
      [] OTHER -> Dg("e", c.a)

\* a getPos that would echo the hints whatever the status
getPosHints(s, c) == PosReply(c.a, c.b)

\* getPos: the reply appended to the sink q
getPos(s, c) ==
    IF s.st = ONLINE THEN PosReply(s.daz, s.dl) ELSE PosReply(c.a, c.b)

\* ghost: the reply of a getPos, the state it was built from, and whether it is
\* the first getPos since the last P (n = 1) or a later one (n = 2); nothing
\* when a P of the tracker came in after this getPos was requested, its
\* commands waiting behind it in the queue q
Snapshot(s, c, lp, q) ==
    IF \E i \in 1..Len(q) : q[i].src = "sat" /\ q[i].cmd \in {"setPosAz", "setPosEl"}
    THEN {}
    ELSE {[reply |-> getPos(s, c), st |-> s.st, daz |-> s.daz, dl |-> s.dl,
           n |-> IF lp = {} THEN 1 ELSE 2]}

(***************************************************************************)
(* The UDP wire.  A request is tagged (ghost) with what became of the      *)
(* exchange that sent it: "live" while __doCommand waits for its reply,    *)
(* "late" once that wait timed out, "orphan" once that wait ended on       *)
(* another command's reply.  A reply keeps the tag of its request.         *)
(***************************************************************************)
Replies(op) == IF op \in {"calaz", "calel"} THEN CalPayloads \cup {"nak"}
               ELSE {"ack", "nak"}

Retag(q, t) == [i \in 1..Len(q) |-> IF q[i].tag = "live" THEN [q[i] EXCEPT !.tag = t]
                                     ELSE q[i]]
NotLive(q) == Cardinality({i \in 1..Len(q) : q[i].tag # "live"})
Unlive(q) == SelectSeq(q, LAMBDA x : x.tag # "live")

\* lock.acquire(); settimeout(); sendto(cmd): the datagram goes to the controller
SendCommand(q, dg) == Append(q, [dg |-> dg, tag |-> "live"])
\* the lock after lock.acquire()
Acquire == TRUE

\* run(): "if not self.__lookup[cmd](...): msgq.append('Error executing
\* command ...')", with the truth value of what the command returned
runLog(e, m) ==
    IF e.next = "ret" /\ ~e.ret THEN m \cup {"Error executing command"} ELSE m

\* the rotator thread leaves the code e computed for command c; q is what is
\* left on the way to the controller
Apply(e, c, q) ==
    /\ status' = e.st
    /\ calaz' = e.caz
    /\ calel' = e.cel
    /\ degaz' = e.daz
    /\ degel' = e.dl
    /\ state' = IF e.cb = NoCb THEN state ELSE e.cb
    /\ IF e.next = "ret"
       THEN /\ rpc' = "idle"
            /\ cur' = NoCmd
            /\ lock' = FALSE
            /\ req' = q
       ELSE /\ rpc' = e.next
            /\ cur' = c
            /\ lock' = Acquire
            /\ req' = SendCommand(q, DgFor(e.next, c))
    /\ lastAz' = IF e.next = "ret" /\ c.cmd = "setPosAz" /\ c.src = "sat"
                 THEN [n |-> c.a, wire |-> rpc = "spaz_move"]
                 ELSE lastAz
    /\ msgq' = runLog(e, msgq)

\* a run() that would take the newest entry
Pop(q) == [c |-> q[Len(q)], rest |-> SubSeq(q, 1, Len(q) - 1)]

\* the entry run() takes from the command queue, and the queue it leaves
Popleft(q) == [c |-> Head(q), rest |-> Tail(q)]

\* run(): take the next command and execute it up to its first exchange
RotDequeue ==
    /\ rpc = "idle"
    /\ cmdq # <<>>
    /\ LET c == Popleft(cmdq).c IN
       /\ cmdq' = Popleft(cmdq).rest
       /\ Apply(Resolve(Lookup(RS, c)), c, req)
       /\ sendq' = IF c.cmd = "getPos" THEN Append(sendq, getPos(RS, c)) ELSE sendq
       /\ lastPos' = IF c.cmd = "getPos" THEN Snapshot(RS, c, lastPos, Popleft(cmdq).rest)
                     ELSE lastPos
    /\ UNCHANGED <<rx, lastState, ping_timer, cfg, ctx, rottrack,
                   satconn, azimuth, elevation, spc, sin>>
    /\ UNCHANGED <<rigVars, evntq, ev, terminate, upc, srvVars, ioVars, lifeVars>>

\* run(): "while not self.__terminate", tested when the inner loop has found the
\* command queue empty
RotExit ==
    /\ rpc = "idle"
    /\ cmdq = <<>>
    /\ terminate
    /\ rpc' = "exit"
    /\ UNCHANGED <<status, calaz, calel, degaz, degel, lock, cur, cmdq>>
    /\ UNCHANGED <<wireVars, uiVars, satVars, rigVars, appVars, srvVars, ioVars, lifeVars>>

\* __doCommand: recvfrom returns a datagram, whichever is first in the buffer
RotRecv ==
    /\ rpc \notin {"idle", "exit", "raised"}
    /\ rx # <<>>
    /\ LET rep == Head(rx) IN
       /\ rx' = Retag(Tail(rx), "orphan")
       /\ Apply(Resolve(After(RS, rpc, TRUE, rep.data, TRUE)), cur, Retag(req, "orphan"))
    /\ UNCHANGED <<cmdq, lastState, ping_timer, cfg, ctx, rottrack, satVars>>
    /\ UNCHANGED <<rigVars, evntq, ev, terminate, upc, srvVars, ioVars, lifeVars>>

\* __doCommand: socket.timeout; the request may still be answered later
RotTimeout ==
    /\ rpc \notin {"idle", "exit", "raised"}
    /\ rx = <<>>
    /\ \E lost \in BOOLEAN :
       /\ ~lost => NotLive(req) < MaxLate
       /\ Apply(Resolve(After(RS, rpc, FALSE, "nak", TRUE)), cur,
                IF lost THEN Unlive(req) ELSE Retag(req, "late"))
    /\ UNCHANGED <<cmdq, rx, lastState, ping_timer, cfg, ctx, rottrack, satVars>>
    /\ UNCHANGED <<rigVars, evntq, ev, terminate, upc, srvVars, ioVars, lifeVars>>

\* __doCommand: sendto or recvfrom raises an error that is not socket.timeout
\* (the network is unreachable, the connection is reset).  Only socket.timeout
\* is caught: the exception leaves __doCommand before "self.__lock.release()",
\* then the command and run(), which has no handler, and the thread ends
RotError ==
    /\ rpc \notin {"idle", "exit", "raised"}
    /\ rpc' = "raised"
    /\ cur' = NoCmd
    /\ UNCHANGED <<status, calaz, calel, degaz, degel, lock, cmdq>>
    /\ UNCHANGED <<wireVars, uiVars, satVars, rigVars, appVars, srvVars, ioVars, lifeVars>>

\* the controller answers the oldest request it holds
ControllerReply ==
    /\ req # <<>>
    /\ \E d \in Replies(Head(req).dg.op) :
          rx' = Append(rx, [data |-> d, tag |-> Head(req).tag])
    /\ req' = Tail(req)
    /\ UNCHANGED <<rotVars, lastAz, uiVars, satVars>>
    /\ UNCHANGED <<rigVars, appVars, srvVars, ioVars, lifeVars>>

\* the controller of the start-up scenarios acknowledges every command: it
\* answers the oldest request it holds, never with nak
ControllerAck ==
    /\ req # <<>>
    /\ \E d \in Replies(Head(req).dg.op) \ {"nak"} :
          rx' = Append(rx, [data |-> d, tag |-> Head(req).tag])
    /\ req' = Tail(req)
    /\ UNCHANGED <<rotVars, lastAz, uiVars, satVars>>
    /\ UNCHANGED <<rigVars, appVars, srvVars, ioVars, lifeVars>>

\* EvntIf.run / RotIf.__event_callback: a position event "<axis>:<n>" is received
\* and handed to pos_callback, which appends it to the event queue
PositionEventOf(axes) ==
    /\ evrun = "loop"
    /\ ev = NoEvent
    /\ ~terminate
    /\ \E what \in axes, n \in EventDegs :
          /\ ev' = Event(what, n)
          /\ evntq' = evntq \cup {Event(what, n)}
    /\ UNCHANGED <<rotVars, wireVars, uiVars, satVars, rigVars, msgq, terminate, upc,
                   srvVars, ioVars, lifeVars>>

\* events of both axes
PositionEvent == PositionEventOf({"az", "el"})

\* events of the azimuth only, for the specifications with the tracker
PositionEventAz == PositionEventOf({"az"})

\* how __event_callback(position) ends for a datagram that is not
\* "<axis>:<n>".  Without a ':' poslist[1] raises IndexError, which
\* "except ValueError" does not catch; with a value that int() rejects the
\* handler runs "msgq.append('Bad position data! ', position)", and append with
\* two arguments raises TypeError.
event_callback(position) ==
    CASE position = "az" -> "IndexError"
      [] position = "az:x" -> "TypeError"
      [] OTHER -> "return"

\* EvntIf.run receives a malformed datagram: run() catches socket.timeout only,
\* so an exception of the callback ends the thread; nothing was logged
MalformedEvent ==
    /\ evrun = "loop"
    /\ ev = NoEvent
    /\ ~terminate
    /\ \E position \in {"az", "az:x"} :
          evrun' = IF event_callback(position) = "return" THEN evrun ELSE "raised"
    /\ bad' = TRUE
    /\ UNCHANGED <<rotVars, wireVars, uiVars, satVars, rigVars, appVars, srvVars, ioVars,
                   port, retry, sterm, again, orphans>>

\* __event_callback after pos_callback returned: the position is stored
PositionStore ==
    /\ ev # NoEvent
    /\ degaz' = IF ev.what = "az" THEN ev.value ELSE degaz
    /\ degel' = IF ev.what = "el" THEN ev.value ELSE degel
    /\ ev' = NoEvent
    /\ UNCHANGED <<status, calaz, calel, lock, rpc, cur, cmdq, wireVars, uiVars, satVars>>
    /\ UNCHANGED <<rigVars, evntq, msgq, terminate, upc, srvVars, ioVars, lifeVars>>

(***************************************************************************)
(* The coordinator (rotui.py): the idle tick and the operator's controls.  *)
(***************************************************************************)
\* room left in the command queue for n more commands
Room(n) == Len(cmdq) + n + (IF spc = "P2" THEN 1 ELSE 0) <= MaxQueue

\* __setContext: which rotator controls are enabled
setContext ==
    IF rottrack THEN "none"
    ELSE IF state = ONLINE THEN "all"
    ELSE IF state = CAL_MANUAL THEN "manual"
    ELSE "none"

\* __checkState with the timer expired: the commands it queues
checkStateCmds ==
    IF state = OFFLINE THEN <<Cmd("poll", 0, 0, "ui")>>
    ELSE IF state = PENDING /\ lastState # PENDING /\ cfgCal
         THEN <<Cmd("coldstart", 0, 0, "ui")>>
    ELSE IF state = ONLINE THEN <<Cmd("isonline", 0, 0, "ui")>>
    ELSE <<>>

\* __checkState with the timer expired: the state it leaves
checkStateNext ==
    IF state = PENDING /\ lastState # PENDING /\ ~cfgCal THEN CAL_MANUAL
    ELSE IF state = CAL_FAILED THEN OFFLINE
    ELSE state

\* __checkSatTrack: the box is unchecked when the server has just gone offline
uncheckSat == satconn = OFFLINE /\ lastSatTrackState = ONLINE

\* __checkSatTrack; unchecking the box runs __trackChanged, which terminates the
\* listener and joins it (it has left its callback) and forgets the SatIf
checkSatTrack ==
    /\ uncheckSat => spc = "idle" /\ srun \notin {"bind", "failed"}
    /\ rottrack' = IF uncheckSat THEN FALSE ELSE rottrack
    /\ slisten' = IF uncheckSat THEN "none" ELSE slisten
    /\ srun' = IF uncheckSat THEN "none" ELSE srun
    /\ lastSatTrackState' = satconn

\* __processEventQ: the events are taken out only while the state is ONLINE
processEventQ == IF state = ONLINE THEN {} ELSE evntq

\* __idleProcessing with the ping timer expired
TickCheck ==
    /\ upc = "run"
    /\ ping_timer = 0
    /\ Room(Len(checkStateCmds))
    /\ ctx' = setContext
    /\ cmdq' = cmdq \o checkStateCmds
    /\ state' = checkStateNext
    /\ lastState' = checkStateNext
    /\ ping_timer' = IF checkStateNext \in {OFFLINE, PENDING}
                     THEN PING_TICKER_1 ELSE PING_TICKER_2
    /\ msgq' = {}
    /\ evntq' = processEventQ
    /\ checkSatTrack
    /\ UNCHANGED <<status, calaz, calel, degaz, degel, lock, rpc, cur,
                   wireVars, cfg, satVars>>
    /\ UNCHANGED <<rigVars, ev, terminate, upc, satRestart, ioVars, lifeVars>>

\* __idleProcessing with the ping timer expired, as far as the branch that
\* __checkState takes on the state it reads: the commands are queued, and the
\* thread may be preempted before it reads the state again
TickBranch ==
    /\ upc = "run"
    /\ ping_timer = 0
    /\ Room(Len(checkStateCmds))
    /\ ctx' = setContext
    /\ cmdq' = cmdq \o checkStateCmds
    /\ state' = checkStateNext
    /\ msgq' = {}
    /\ evntq' = processEventQ
    /\ upc' = "tick"
    /\ UNCHANGED <<status, calaz, calel, degaz, degel, lock, rpc, cur,
                   wireVars, lastState, ping_timer, cfg, rottrack, satVars>>
    /\ UNCHANGED <<rigVars, ev, terminate, srvVars, ioVars, lifeVars>>

\* the end of __checkState, "if self.__state == OFFLINE or self.__state ==
\* PENDING: ..." and "self.__lastState = self.__state", which read the state as
\* the rotator thread's callback may have set it meanwhile; then __checkSatTrack
TickStore ==
    /\ upc = "tick"
    /\ ping_timer' = IF state \in {OFFLINE, PENDING} THEN PING_TICKER_1 ELSE PING_TICKER_2
    /\ lastState' = state
    /\ checkSatTrack
    /\ upc' = "run"
    /\ UNCHANGED <<rotVars, wireVars, state, cfg, ctx, satVars>>
    /\ UNCHANGED <<rigVars, evntq, ev, msgq, terminate, satRestart, ioVars, lifeVars>>

\* "self.__ping_timer -= 1": only whether the timer is 0 is ever read, so a running
\* timer keeps its reload value until the decrement that brings it to 0
Decrement(t) == {t, 0}

\* __idleProcessing while the ping timer runs
TickWait ==
    /\ upc = "run"
    /\ ping_timer > 0
    /\ ctx' = setContext
    /\ ping_timer' \in Decrement(ping_timer)
    /\ msgq' = {}
    /\ evntq' = processEventQ
    /\ checkSatTrack
    /\ UNCHANGED <<rotVars, wireVars, state, lastState, cfg, satVars>>
    /\ UNCHANGED <<rigVars, ev, terminate, upc, satRestart, ioVars, lifeVars>>

\* __onCalibrate
OnCalibrate ==
    /\ upc = "run"
    /\ ctx \in {"all", "manual"}
    /\ Room(2)
    /\ cmdq' = cmdq \o <<Cmd("calibrateAz", 0, 0, "op"), Cmd("calibrateEl", 0, 0, "op")>>
    /\ UNCHANGED <<status, calaz, calel, degaz, degel, lock, rpc, cur,
                   wireVars, uiVars, satVars>>
    /\ UNCHANGED <<rigVars, appVars, srvVars, ioVars, lifeVars>>

\* __onHome
OnHome ==
    /\ upc = "run"
    /\ ctx = "all"
    /\ Room(2)
    /\ cmdq' = cmdq \o <<Cmd("homeAz", 0, 0, "op"), Cmd("homeEl", 0, 0, "op")>>
    /\ UNCHANGED <<status, calaz, calel, degaz, degel, lock, rpc, cur,
                   wireVars, uiVars, satVars>>
    /\ UNCHANGED <<rigVars, appVars, srvVars, ioVars, lifeVars>>

\* a terminate() that would save as soon as one axis is calibrated
saveCalAny(c, az, el) ==
    IF az # NoCal \/ el # NoCal THEN {[AZ |-> az, EL |-> el]} ELSE c

\* terminate(): "if self.__calaz != -1 and self.__calel != -1" the record c gets
\* both values
saveCal(c, az, el) ==
    IF az # NoCal /\ el # NoCal THEN {[AZ |-> az, EL |-> el]} ELSE c

\* close(), up to the return of rotif.terminate(): the flag is set, the event
\* thread is joined (it has left its callback) and the calibration is saved
Close ==
    /\ upc = "run"
    /\ mpc = "idle"
    /\ ev = NoEvent
    /\ terminate' = TRUE
    /\ cfg' = saveCal(cfg, calaz, calel)
    /\ upc' = "join"
    /\ UNCHANGED <<rotVars, wireVars, state, lastState, ping_timer, ctx, rottrack,
                   satVars, rigVars, evntq, ev, msgq, srvVars, ioVars, lifeVars>>

\* close(): rotif.join() returns once the rotator thread has left run(); then
\* the two protocol servers are terminated and joined: their listeners stop
\* between two callbacks, their threads leave run() and report OFFLINE
CloseJoin ==
    /\ upc = "join"
    /\ rpc = "exit"
    /\ spc = "idle"
    /\ fpc = "idle"
    /\ upc' = "closed"
    /\ satconn' = IF srun = "loop" THEN OFFLINE ELSE satconn
    /\ srun' = "none"
    /\ slisten' = "none"
    /\ rigconn' = OFFLINE
    /\ rrun' = "exited"
    /\ rlisten' = "exited"
    /\ UNCHANGED <<rotVars, wireVars, uiVars, azimuth, elevation, sendq, spc, sin, lastPos>>
    /\ UNCHANGED <<ptt, rigPtt, lastFreq, restart, rsendq, fpc, freq, mpc, cat, hist, rpeer,
                   catq>>
    /\ UNCHANGED <<evntq, ev, msgq, terminate, satRestart, lastSatTrackState, ioVars, lifeVars>>

\* __trackChanged, box checked: SatIf is created and started, its socket is
\* bound and its listener waits for the tracker
TrackOn ==
    /\ upc = "run"
    /\ ~rottrack
    /\ rottrack' = TRUE
    /\ satconn' = WAITING
    /\ azimuth' = 0
    /\ elevation' = 0
    /\ sendq' = <<>>
    /\ lastPos' = {}
    /\ satRestart' = FALSE
    /\ srun' = "loop"
    /\ slisten' = "accept"
    /\ port' = "free"
    /\ UNCHANGED <<rotVars, wireVars, state, lastState, ping_timer, cfg, ctx,
                   spc, sin>>
    /\ UNCHANGED <<rigVars, appVars, lastSatTrackState, ioVars, evrun, bad, retry, sterm,
                   again, orphans>>

\* __trackChanged, box unchecked: SatIf.terminate() stops the listener and joins
\* it, the SatIf thread leaves run() and reports OFFLINE, and is joined
TrackOff ==
    /\ upc = "run"
    /\ rottrack
    /\ spc = "idle"
    /\ srun \notin {"bind", "failed"}
    /\ rottrack' = FALSE
    /\ satconn' = OFFLINE
    /\ srun' = "none"
    /\ slisten' = "none"
    /\ UNCHANGED <<rotVars, wireVars, state, lastState, ping_timer, cfg, ctx,
                   azimuth, elevation, sendq, spc, sin, lastPos>>
    /\ UNCHANGED <<rigVars, appVars, satRestart, lastSatTrackState, ioVars, lifeVars>>

\* an instance that would be let go of as it is
dropSatifRunning(inst) == inst

\* __trackChanged, "if self.__satif != None": terminate(), join(), and the
\* reference is dropped; inst is 1 when a thread of the instance runs at the
\* call, and the result is the number of instances let go of while running
dropSatif(inst) == 0

\* __trackChanged with the box checked while a SatIf exists: the old instance
\* is terminated and joined (its listener stops between two callbacks), then a
\* new one is created and started, binds and waits for the tracker
TrackAgain ==
    /\ upc = "run"
    /\ rottrack
    /\ spc = "idle"
    /\ srun \in {"loop", "exited"}
    /\ orphans' = orphans + dropSatif(IF srun = "loop" \/ slisten # "none" THEN 1 ELSE 0)
    /\ again' = TRUE
    /\ satconn' = WAITING
    /\ azimuth' = 0
    /\ elevation' = 0
    /\ sendq' = <<>>
    /\ lastPos' = {}
    /\ satRestart' = FALSE
    /\ srun' = "loop"
    /\ slisten' = "accept"
    /\ port' = "free"
    /\ UNCHANGED <<rotVars, wireVars, uiVars, spc, sin>>
    /\ UNCHANGED <<rigVars, appVars, lastSatTrackState, ioVars, evrun, bad, retry, sterm>>

\* __trackChanged, box checked, while another program holds the port: SatIf is
\* created and started and its thread enters __openSocket
TrackOnBusy ==
    /\ upc = "run"
    /\ ~rottrack
    /\ rottrack' = TRUE
    /\ \E e \in {"10048", "98"} : port' = e
    /\ retry' = 5
    /\ sterm' = FALSE
    /\ azimuth' = 0
    /\ elevation' = 0
    /\ sendq' = <<>>
    /\ lastPos' = {}
    /\ satRestart' = FALSE
    /\ srun' = "bind"
    /\ UNCHANGED <<rotVars, wireVars, state, lastState, ping_timer, cfg, ctx,
                   satconn, spc, sin>>
    /\ UNCHANGED <<rigVars, appVars, slisten, lastSatTrackState, ioVars, evrun, bad,
                   again, orphans>>

\* __openSocket's retry after a bind() that raised e: counted down only when
\* the text of e holds '10048'
bindFailed(e, r) == IF e = "10048" THEN r - 1 ELSE r

\* one pass of the loop of __openSocket while the port is held: bind() raises;
\* with the last retry used up the failure is logged, FAILED is reported and
\* the loop is left
SatBind ==
    /\ srun = "bind"
    /\ port # "free"
    /\ retry' = bindFailed(port, retry)
    /\ srun' = IF retry' = 0 THEN "failed" ELSE srun
    /\ msgq' = IF retry' = 0
               THEN msgq \cup {"Failed to bind sat control antenna interface socket!"}
               ELSE msgq
    /\ satconn' = IF retry' = 0 THEN FAILED ELSE satconn
    /\ UNCHANGED <<rotVars, wireVars, uiVars, azimuth, elevation, sendq, spc, sin, lastPos>>
    /\ UNCHANGED <<rigVars, evntq, ev, terminate, upc, satRestart, slisten,
                   lastSatTrackState, ioVars, evrun, bad, port, sterm, again, orphans>>

\* SatIf.run after __openSocket returned False: no listener is created, the
\* exit is logged and OFFLINE is reported
SatBindExit ==
    /\ srun = "failed"
    /\ srun' = "exited"
    /\ msgq' = msgq \cup {"Antenna interface thread exiting"}
    /\ satconn' = OFFLINE
    /\ UNCHANGED <<rotVars, wireVars, uiVars, azimuth, elevation, sendq, spc, sin, lastPos>>
    /\ UNCHANGED <<rigVars, evntq, ev, terminate, upc, satRestart, slisten,
                   lastSatTrackState, ioVars, lifeVars>>

\* __trackChanged while the SatIf thread is still in __openSocket or on its way
\* out: terminate() sets the flag (there is no listener yet) and join() waits
SatTerminate ==
    /\ upc = "run"
    /\ rottrack
    /\ srun \in {"bind", "failed"}
    /\ sterm' = TRUE
    /\ upc' = "joinsat"
    /\ \E checked \in BOOLEAN : rottrack' = checked
    /\ UNCHANGED <<rotVars, wireVars, state, lastState, ping_timer, cfg, ctx, satVars>>
    /\ UNCHANGED <<rigVars, evntq, ev, msgq, terminate, srvVars, ioVars, evrun, bad, port,
                   retry, again, orphans>>

\* __trackChanged: join() returns once the SatIf thread has left run(); with
\* the box checked a new SatIf is created and started, and the port is still
\* held
SatJoined ==
    /\ upc = "joinsat"
    /\ srun = "exited"
    /\ slisten \notin {"start", "accept", "serve"}
    /\ upc' = "run"
    /\ srun' = IF rottrack THEN "bind" ELSE "none"
    /\ retry' = IF rottrack THEN 5 ELSE retry
    /\ sterm' = FALSE
    /\ again' = (again \/ rottrack)
    /\ UNCHANGED <<rotVars, wireVars, uiVars, satVars>>
    /\ UNCHANGED <<rigVars, evntq, ev, msgq, terminate, satRestart, slisten,
                   lastSatTrackState, ioVars, evrun, bad, port, orphans>>

\* __trackChanged, box checked: SatIf is created and started, binds and starts
\* its listener, which has called listen() and reported WAITING and is about
\* to test "while not self.__terminate"
TrackOnStart ==
    /\ upc = "run"
    /\ ~rottrack
    /\ rottrack' = TRUE
    /\ satconn' = WAITING
    /\ azimuth' = 0
    /\ elevation' = 0
    /\ sendq' = <<>>
    /\ lastPos' = {}
    /\ satRestart' = FALSE
    /\ srun' = "loop"
    /\ slisten' = "start"
    /\ port' = "free"
    /\ sterm' = FALSE
    /\ UNCHANGED <<rotVars, wireVars, state, lastState, ping_timer, cfg, ctx,
                   spc, sin>>
    /\ UNCHANGED <<rigVars, appVars, lastSatTrackState, ioVars, evrun, bad, retry,
                   again, orphans>>

\* AntListenerThread.run: the test of "while not self.__terminate" of the accept
\* loop.  With the flag set the loop is left as after a connect: the connection
\* (None) is logged, ONLINE is reported, and "self.__conn.settimeout" raises
\* AttributeError, which ends the thread
ListenerTest ==
    /\ slisten = "start"
    /\ slisten' = IF sterm THEN "raised" ELSE "accept"
    /\ satconn' = IF sterm THEN ONLINE ELSE satconn
    /\ msgq' = IF sterm THEN msgq \cup {"Satellite antenna control connected at None"}
               ELSE msgq
    /\ UNCHANGED <<rotVars, wireVars, uiVars, azimuth, elevation, sendq, spc, sin, lastPos>>
    /\ UNCHANGED <<rigVars, evntq, ev, terminate, upc, satRestart, srun,
                   lastSatTrackState, ioVars, lifeVars>>

\* AntListenerThread.run: accept() times out after 1 s: "if self.__terminate:
\* return", else "continue" to the test of the loop
AcceptTimeout ==
    /\ slisten = "accept"
    /\ slisten' = IF sterm THEN "exited" ELSE "start"
    /\ UNCHANGED <<rotVars, wireVars, uiVars, satVars>>
    /\ UNCHANGED <<rigVars, appVars, satRestart, srun, lastSatTrackState, ioVars, lifeVars>>

\* __trackChanged, box unchecked, while the listener waits for the tracker:
\* SatIf.terminate() sets the flag of SatIf and that of the listener, and
\* join() waits
ListenerTerminate ==
    /\ upc = "run"
    /\ rottrack
    /\ srun = "loop"
    /\ slisten \in {"start", "accept"}
    /\ sterm' = TRUE
    /\ rottrack' = FALSE
    /\ upc' = "joinsat"
    /\ UNCHANGED <<rotVars, wireVars, state, lastState, ping_timer, cfg, ctx, satVars>>
    /\ UNCHANGED <<rigVars, evntq, ev, msgq, terminate, srvVars, ioVars, evrun, bad, port,
                   retry, again, orphans>>

(***************************************************************************)
(* The rotator protocol server (satif.py).                                 *)
(***************************************************************************)
\* AntListenerThread.run: accept() returns the tracker's connection
SatAccept ==
    /\ slisten = "accept"
    /\ satconn' = ONLINE
    /\ slisten' = "serve"
    /\ UNCHANGED <<rotVars, wireVars, uiVars, azimuth, elevation, sendq, spc, sin, lastPos>>
    /\ UNCHANGED <<rigVars, appVars, satRestart, srun, lastSatTrackState, ioVars, lifeVars>>

\* AntListenerThread.run: "data = sendq.pop(); conn.send(data)"
SatSend ==
    /\ slisten = "serve"
    /\ spc = "idle"
    /\ sendq # <<>>
    /\ sendq' = SubSeq(sendq, 1, Len(sendq) - 1)
    /\ UNCHANGED <<rotVars, wireVars, uiVars, satconn, azimuth, elevation, spc, sin, lastPos>>
    /\ UNCHANGED <<rigVars, appVars, srvVars, ioVars, lifeVars>>

\* replies the tracker still waits for: those queued for sending and those a
\* queued getPos will produce
Outstanding == Len(sendq) + Cardinality({i \in 1..Len(cmdq) : cmdq[i].cmd = "getPos"})

\* a p that would clear the hint it has just passed on
SatGetPosClear ==
    /\ slisten = "serve"
    /\ spc = "idle"
    /\ Outstanding < MaxOutstanding
    /\ Room(1)
    /\ cmdq' = Append(cmdq, Cmd("getPos", azimuth, elevation, "sat"))
    /\ azimuth' = 0
    /\ UNCHANGED <<status, calaz, calel, degaz, degel, lock, rpc, cur,
                   wireVars, uiVars, satconn, elevation, sendq, spc, sin, lastPos>>
    /\ UNCHANGED <<rigVars, appVars, srvVars, ioVars, lifeVars>>

\* __listenCallback("p\n")
SatGetPos ==
    /\ slisten = "serve"
    /\ spc = "idle"
    /\ Outstanding < MaxOutstanding
    /\ Room(1)
    /\ cmdq' = Append(cmdq, Cmd("getPos", azimuth, elevation, "sat"))
    /\ UNCHANGED <<status, calaz, calel, degaz, degel, lock, rpc, cur,
                   wireVars, uiVars, satVars>>
    /\ UNCHANGED <<rigVars, appVars, srvVars, ioVars, lifeVars>>

\* __listenCallback("q\n"): logged, acknowledged, restart requested
SatQuit ==
    /\ slisten = "serve"
    /\ spc = "idle"
    /\ Outstanding < MaxOutstanding
    /\ msgq' = msgq \cup {"Request to quit listening"}
    /\ sendq' = Append(sendq, RPRT0)
    /\ satRestart' = TRUE
    /\ UNCHANGED <<rotVars, wireVars, uiVars, satconn, azimuth, elevation, spc, sin, lastPos>>
    /\ UNCHANGED <<rigVars, evntq, ev, terminate, upc, srun, slisten, lastSatTrackState,
                   ioVars, lifeVars>>

\* the malformed P commands: a wrong number of tokens, or a token that float()
\* rejects (the first or the second)
BadP == {"count", "az", "el"}

\* what __listenCallback does with a malformed P: with a wrong count it only logs;
\* for a bad number the ValueError handler names paramList, which does not
\* exist, and the NameError reaches the outer handler, which logs and requests
\* the restart.  ok tells whether RPRT 0 is queued.
HandleBadP(k) ==
    IF k = "count"
    THEN [msg |-> "Invalid number of parameters", ok |-> FALSE, restart |-> FALSE]
    ELSE [msg |-> "Problem with sat control", ok |-> FALSE, restart |-> TRUE]

\* __listenCallback with a malformed P
SatBadP ==
    /\ slisten = "serve"
    /\ spc = "idle"
    /\ Outstanding < MaxOutstanding
    /\ \E k \in BadP, az \in AzInputs :
          /\ msgq' = msgq \cup {HandleBadP(k).msg}
          /\ sendq' = IF HandleBadP(k).ok THEN Append(sendq, RPRT0) ELSE sendq
          /\ satRestart' = (satRestart \/ HandleBadP(k).restart)
          /\ azimuth' = IF k = "el" THEN Trunc(az) ELSE azimuth
    /\ UNCHANGED <<rotVars, wireVars, uiVars, satconn, elevation, spc, sin, lastPos>>
    /\ UNCHANGED <<rigVars, evntq, ev, terminate, upc, srun, slisten, lastSatTrackState,
                   ioVars, lifeVars>>

\* SatIf.run: the loop sees __restart, closes the listening socket and reports
\* OFFLINE; the thread ends
SatRunExit ==
    /\ srun = "loop"
    /\ (satRestart \/ sterm)
    /\ srun' = "exited"
    /\ satconn' = OFFLINE
    /\ msgq' = msgq \cup {"Antenna interface thread exiting"}
    /\ UNCHANGED <<rotVars, wireVars, uiVars, azimuth, elevation, sendq, spc, sin, lastPos>>
    /\ UNCHANGED <<rigVars, evntq, ev, terminate, upc, satRestart, slisten,
                   lastSatTrackState, ioVars, lifeVars>>

\* a callback that would queue the elevation first
SetPosCmdsElFirst(az, el) ==
    <<Cmd("setPosEl", Trunc(el), Trunc(az), "sat"), Cmd("setPosAz", Trunc(az), 0, "sat")>>

\* the commands __listenCallback queues for "P <az> <el>\n", in the order queued
SetPosCmds(az, el) ==
    <<Cmd("setPosAz", Trunc(az), 0, "sat"), Cmd("setPosEl", Trunc(el), Trunc(az), "sat")>>

\* __listenCallback("P <az> <el>\n"), up to the first cmdq.append
SatSetPos1 ==
    /\ slisten = "serve"
    /\ spc = "idle"
    /\ Outstanding < MaxOutstanding
    /\ Room(2)
    /\ \E az \in AzInputs, el \in ElInputs :
          /\ azimuth' = Trunc(az)
          /\ elevation' = Trunc(el)
          /\ sin' = SetPosCmds(az, el)
          /\ cmdq' = Append(cmdq, SetPosCmds(az, el)[1])
    /\ spc' = "P2"
    /\ lastPos' = {}
    /\ UNCHANGED <<status, calaz, calel, degaz, degel, lock, rpc, cur,
                   wireVars, uiVars, satconn, sendq>>
    /\ UNCHANGED <<rigVars, appVars, srvVars, ioVars, lifeVars>>

\* __listenCallback("P <az> <el>\n"), from the second cmdq.append on
SatSetPos2 ==
    /\ spc = "P2"
    /\ cmdq' = Append(cmdq, sin[2])
    /\ sendq' = Append(sendq, RPRT0)
    /\ spc' = "idle"
    /\ sin' = <<>>
    /\ UNCHANGED <<status, calaz, calel, degaz, degel, lock, rpc, cur,
                   wireVars, uiVars, satconn, azimuth, elevation, lastPos>>
    /\ UNCHANGED <<rigVars, appVars, srvVars, ioVars, lifeVars>>

(***************************************************************************)
(* The specifications of the rotator side.                                 *)
(***************************************************************************)
Init ==
    /\ status = OFFLINE
    /\ calaz = NoCal
    /\ calel = NoCal
    /\ degaz = -1
    /\ degel = -1
    /\ lock = FALSE
    /\ rpc = "idle"
    /\ cur = NoCmd
    /\ cmdq = <<>>
    /\ req = <<>>
    /\ rx = <<>>
    /\ lastAz = [n |-> -1, wire |-> FALSE]
    /\ state = OFFLINE
    /\ lastState = OFFLINE
    /\ ping_timer = 0
    /\ cfg \in {{}, {SavedCal}}
    /\ ctx = "all"
    /\ rottrack = FALSE
    /\ satconn = OFFLINE
    /\ azimuth = 0
    /\ elevation = 0
    /\ sendq = <<>>
    /\ spc = "idle"
    /\ sin = <<>>
    /\ lastPos = {}
    /\ rigconn = WAITING
    /\ ptt = FALSE
    /\ rigPtt = FALSE
    /\ lastFreq = {}
    /\ restart = FALSE
    /\ rsendq = <<>>
    /\ fpc = "idle"
    /\ freq = 0
    /\ mpc = "idle"
    /\ cat = [cmd |-> NoCat, bit |-> 0]
    /\ hist = "none"
    /\ rrun = "loop"
    /\ rlisten = "accept"
    /\ rpeer = FALSE
    /\ catq = <<>>
    /\ evntq = {}
    /\ ev = NoEvent
    /\ msgq = {}
    /\ terminate = FALSE
    /\ upc = "run"
    /\ satRestart = FALSE
    /\ srun = "none"
    /\ slisten = "none"
    /\ lastSatTrackState = OFFLINE
    /\ sent = <<>>
    /\ pending = <<>>
    /\ handled = <<>>
    /\ evrun = "loop"
    /\ bad = FALSE
    /\ port = "free"
    /\ retry = 5
    /\ sterm = FALSE
    /\ again = FALSE
    /\ orphans = 0

\* the rotator service with the coordinator and the operator
Next ==
    \/ RotDequeue
    \/ RotRecv
    \/ RotTimeout
    \/ ControllerReply
    \/ PositionEvent
    \/ PositionStore
    \/ TickCheck
    \/ TickWait
    \/ OnCalibrate
    \/ OnHome

Spec == Init /\ [][Next]_vars

\* the rotator service with the coordinator and the rotator protocol server
NextSat ==
    \/ RotDequeue
    \/ RotRecv
    \/ RotTimeout
    \/ ControllerReply
    \/ PositionEventAz
    \/ PositionStore
    \/ TickCheck
    \/ TickWait
    \/ TrackOn
    \/ SatAccept
    \/ SatSend
    \/ SatGetPos
    \/ SatSetPos1
    \/ SatSetPos2

SpecSat == Init /\ [][NextSat]_vars

\* the rotator service with its three producers: coordinator, operator and
\* rotator protocol server
NextQueue ==
    \/ RotDequeue
    \/ RotRecv
    \/ RotTimeout
    \/ ControllerReply
    \/ TickCheck
    \/ TickWait
    \/ OnCalibrate
    \/ TrackOn
    \/ SatAccept
    \/ SatSend
    \/ SatGetPos
    \/ SatSetPos1
    \/ SatSetPos2

SpecQueue == Init /\ [][NextQueue]_vars

\* most commands the tracker writes in a run
MaxCmds == 2

\* the text of a command: its tokens with a blank between them, and a newline
Encode(c) ==
    [i \in 1..(2 * Len(c)) |->
        IF i % 2 = 1 THEN c[(i + 1) \div 2] ELSE IF i = 2 * Len(c) THEN "\n" ELSE " "]

\* the tracker writes p or P <az> <el> to its connection
TrackerWrite ==
    /\ Len(sent) < MaxCmds
    /\ \E c \in {<<"p">>, <<"P", "10", "20">>} :
          /\ sent' = Append(sent, c)
          /\ pending' = pending \o Encode(c)
    /\ UNCHANGED <<rotVars, wireVars, uiVars, satVars, rigVars, appVars, srvVars, handled, lifeVars>>

\* __listenCallback(msg) for a read msg that is not empty: "toks = msg.split()"
\* and the branch taken on toks[0]; the result is the command handled, or
\* what became of the read
listenCallback(msg) ==
    LET toks == SelectSeq(msg, LAMBDA x : x \notin {" ", "\n"}) IN
    IF toks = <<>> THEN <<"raise">>
    ELSE IF toks[1] = "p" THEN <<"p">>
    ELSE IF toks[1] = "P"
         THEN IF Len(toks) # 3 THEN <<"invalid">>
              ELSE IF toks[2] \in {"10", "20"} /\ toks[3] \in {"10", "20"}
                   THEN <<"P", toks[2], toks[3]>>
                   ELSE <<"raise">>
    ELSE <<"unknown">>

\* AntListenerThread.run: recv() returns some of the bytes that have arrived and
\* the callback gets them as one message
ListenerRecv ==
    /\ pending # <<>>
    /\ \E k \in 1..Len(pending) :
          /\ handled' = Append(handled, listenCallback(SubSeq(pending, 1, k)))
          /\ pending' = SubSeq(pending, k + 1, Len(pending))
    /\ UNCHANGED <<rotVars, wireVars, uiVars, satVars, rigVars, appVars, srvVars, sent, lifeVars>>

\* the event receiver with well-formed and malformed datagrams, the rotator
\* service and the coordinator
NextEvent ==
    \/ RotDequeue
    \/ RotRecv
    \/ RotTimeout
    \/ ControllerReply
    \/ PositionEvent
    \/ MalformedEvent
    \/ PositionStore
    \/ TickCheck
    \/ TickWait

SpecEvent == Init /\ [][NextEvent]_vars

\* the tracker's byte stream and the reads of the listener
NextFrame ==
    \/ TrackerWrite
    \/ ListenerRecv

SpecFrame == Init /\ [][NextFrame]_vars

\* the rotator protocol server from the tracking box to q and malformed
\* commands, with the rotator service and the coordinator
NextServe ==
    \/ RotDequeue
    \/ RotRecv
    \/ RotTimeout
    \/ ControllerReply
    \/ TickCheck
    \/ TickWait
    \/ TrackOn
    \/ TrackOff
    \/ SatAccept
    \/ SatSend
    \/ SatQuit
    \/ SatBadP
    \/ SatRunExit

SpecServe == Init /\ [][NextServe]_vars

\* the rotator service and the coordinator up to and through close()
NextClose ==
    \/ RotDequeue
    \/ RotRecv
    \/ RotTimeout
    \/ RotExit
    \/ ControllerReply
    \/ PositionEvent
    \/ PositionStore
    \/ TickCheck
    \/ TickWait
    \/ OnCalibrate
    \/ Close
    \/ CloseJoin

SpecClose == Init /\ [][NextClose]_vars

\* start-up against a controller that acknowledges every command in time: the
\* rotator thread, the controller and the 100 ms tick all keep running, and a
\* running ping timer expires
NextStart ==
    \/ RotDequeue
    \/ RotRecv
    \/ ControllerAck
    \/ TickCheck
    \/ TickWait

FairStart ==
    /\ WF_vars(RotDequeue)
    /\ WF_vars(RotRecv)
    /\ WF_vars(ControllerAck)
    /\ WF_vars(TickCheck)
    /\ WF_vars(TickWait /\ ping_timer' = 0)

SpecStart == Init /\ [][NextStart]_vars /\ FairStart

\* the same start-up with the operator, who may click Calibrate when the button
\* is enabled (and is never obliged to)
NextManual ==
    \/ RotDequeue
    \/ RotRecv
    \/ ControllerAck
    \/ TickCheck
    \/ TickWait
    \/ OnCalibrate

SpecManual == Init /\ [][NextManual]_vars /\ FairStart

\* the start-up with a controller that acknowledges everything, the tick being
\* interleaved with the rotator thread at the point where __checkState reads
\* the state again; every thread keeps running
NextTick ==
    \/ RotDequeue
    \/ RotRecv
    \/ ControllerAck
    \/ TickBranch
    \/ TickStore
    \/ TickWait

SpecTick ==
    /\ Init
    /\ [][NextTick]_vars
    /\ WF_vars(RotDequeue)
    /\ WF_vars(RotRecv)
    /\ WF_vars(ControllerAck)
    /\ WF_vars(TickBranch)
    /\ WF_vars(TickStore)
    /\ WF_vars(TickWait /\ ping_timer' = 0)

\* the listener of the rotator protocol server from its start to the connect
\* or to terminate(), with the rotator service and the coordinator
NextAccept ==
    \/ RotDequeue
    \/ RotRecv
    \/ ControllerAck
    \/ TickCheck
    \/ TickWait
    \/ TrackOnStart
    \/ ListenerTest
    \/ AcceptTimeout
    \/ SatAccept
    \/ ListenerTerminate
    \/ SatRunExit
    \/ SatJoined

SpecAccept == Init /\ [][NextAccept]_vars

\* the rotator service and the coordinator with a socket that can fail
NextError ==
    \/ RotDequeue
    \/ RotRecv
    \/ RotTimeout
    \/ RotError
    \/ ControllerAck
    \/ TickCheck
    \/ TickWait

SpecError == Init /\ [][NextError]_vars

\* the tracking box and the life of the rotator protocol server, with the port
\* free or held by another program, the rotator service and the coordinator
NextBind ==
    \/ RotDequeue
    \/ RotRecv
    \/ ControllerAck
    \/ TickCheck
    \/ TickWait
    \/ TrackOn
    \/ TrackAgain
    \/ TrackOff
    \/ TrackOnBusy
    \/ SatAccept
    \/ SatBind
    \/ SatBindExit
    \/ SatTerminate
    \/ SatJoined

\* every thread keeps running
FairBind ==
    /\ FairStart
    /\ WF_vars(SatBind)
    /\ WF_vars(SatBindExit)
    /\ WF_vars(SatJoined)

SpecBind == Init /\ [][NextBind]_vars /\ FairBind

(***************************************************************************)
(* The rig protocol server (rigif.py).  The listener thread runs the       *)
(* callback; the operator's thread runs manualSetPtt.                      *)
(***************************************************************************)
\* cat.do_command(...): the command goes to the CAT service
DoCommand(c, cmd) == [cmd |-> cmd, bit |-> 1 - c.bit]

Abs(n) == IF n < 0 THEN -n ELSE n

\* a comparison that would key at 100 kHz already
CrossoverAt(f, last) == Abs(f - last) >= 100000

\* "abs(int(freq)-int(self.__lastFreq)) > 100000"
Crossover(f, last) == Abs(f - last) > 100000

\* the F branch after the reply is queued: "raise" when __lastFreq is read before
\* it exists, "key" when the rig is to be set to TX, else "store"
SetFreq(p, last, f) ==
    IF ~p THEN "store"
    ELSE IF last = {} THEN "raise"
    ELSE IF Crossover(f, CHOOSE l \in last : TRUE) THEN "key"
    ELSE "store"

\* ghost: an F moves the frequency by more than 100 kHz
Jump(last, f) == \E l \in last : f - l > 100000 \/ l - f > 100000

\* RigListenerThread.run: accept() returns the tracker's connection
RigAccept ==
    /\ rlisten = "accept"
    /\ rigconn' = ONLINE
    /\ rlisten' = "serve"
    /\ rpeer' = TRUE
    /\ UNCHANGED <<ptt, rigPtt, lastFreq, restart, rsendq, fpc, freq, mpc, cat, hist>>
    /\ UNCHANGED <<rotVars, wireVars, uiVars, satVars, appVars, srvVars, rrun, catq, ioVars, lifeVars>>

\* RigListenerThread.run: "data = sendq.pop(); conn.send(data)"
RigSend ==
    /\ rlisten = "serve"
    /\ rpeer
    /\ fpc = "idle"
    /\ rsendq # <<>>
    /\ rsendq' = SubSeq(rsendq, 1, Len(rsendq) - 1)
    /\ UNCHANGED <<rigconn, ptt, rigPtt, lastFreq, restart, fpc, freq, mpc, cat, hist>>
    /\ UNCHANGED <<rotVars, wireVars, uiVars, satVars, appVars, srvVars, rigSrv, ioVars, lifeVars>>

\* __listenCallback("F <hz>\n") up to the test of the PTT; when the rig is not
\* to be keyed, to the end
RigSetFreq ==
    /\ rlisten = "serve"
    /\ rpeer
    /\ fpc = "idle"
    /\ Len(rsendq) < MaxOutstanding
    /\ \E f \in Freqs :
          /\ freq' = f
          /\ cat' = DoCommand(cat, CatCmd("FREQ_SET", f))
          /\ rsendq' = Append(rsendq, Reply("F", "RPRT 0"))
          /\ fpc' = IF SetFreq(ptt, lastFreq, f) = "key" THEN "key" ELSE "idle"
          /\ lastFreq' = IF SetFreq(ptt, lastFreq, f) = "store" THEN {f} ELSE lastFreq
          /\ restart' = IF SetFreq(ptt, lastFreq, f) = "raise" THEN TRUE ELSE restart
          /\ hist' = IF hist # "none" /\ Jump(lastFreq, f) THEN "jump" ELSE hist
    /\ UNCHANGED <<rigconn, ptt, rigPtt, mpc>>
    /\ UNCHANGED <<rotVars, wireVars, uiVars, satVars, appVars, srvVars, rigSrv, ioVars, lifeVars>>

\* the CAT command that keys the transmitter
PttOn == CatCmd("PTT_SET", TRUE)

\* a manualSetPtt that would key the transmitter instead
PttKeep == PttOn

\* the CAT command that unkeys the transmitter
PttOff == CatCmd("PTT_SET", FALSE)

\* __listenCallback("F <hz>\n"): "self.__cat.do_command(CAT_PTT_SET, True)"
RigKeyCat ==
    /\ fpc = "key"
    /\ cat' = DoCommand(cat, PttOn)
    /\ fpc' = "rig"
    /\ UNCHANGED <<rigconn, ptt, rigPtt, lastFreq, restart, rsendq, freq, mpc, hist>>
    /\ UNCHANGED <<rotVars, wireVars, uiVars, satVars, appVars, srvVars, rigSrv, ioVars, lifeVars>>

\* __listenCallback("F <hz>\n"): "self.__rigPtt = True; self.__lastFreq = freq"
RigKeyed ==
    /\ fpc = "rig"
    /\ rigPtt' = TRUE
    /\ lastFreq' = {freq}
    /\ fpc' = "idle"
    /\ UNCHANGED <<rigconn, ptt, restart, rsendq, freq, mpc, cat, hist>>
    /\ UNCHANGED <<rotVars, wireVars, uiVars, satVars, appVars, srvVars, rigSrv, ioVars, lifeVars>>

\* C33 (as stated): whenever neither manualSetPtt nor the F handler is under
\* way, rig_ptt = true implies ptt_intent = true: the transmitter is not left
\* keyed after the operator has switched PTT off.
C33_Original == (fpc = "idle" /\ mpc = "idle" /\ rigPtt) => ptt

\* a t that would report the PTT of the rig
RigPttReply(p, r) == IF r THEN "1" ELSE "0"

\* the t branch: the line sent for the manual PTT p (r is the PTT of the rig)
PttReply(p, r) == IF p THEN "1" ELSE "0"

\* __listenCallback("t\n")
RigGetPtt ==
    /\ rlisten = "serve"
    /\ rpeer
    /\ fpc = "idle"
    /\ Len(rsendq) < MaxOutstanding
    /\ rsendq' = Append(rsendq, Reply("t", PttReply(ptt, rigPtt)))
    /\ UNCHANGED <<rigconn, ptt, rigPtt, lastFreq, restart, fpc, freq, mpc, cat, hist>>
    /\ UNCHANGED <<rotVars, wireVars, uiVars, satVars, appVars, srvVars, rigSrv, ioVars, lifeVars>>

\* manualSetPtt(v): "self.__ptt = ptt" and the test that follows
ManualSetPtt ==
    /\ upc = "run"
    /\ mpc = "idle"
    /\ \E v \in BOOLEAN :
          /\ ptt' = v
          /\ mpc' = IF v THEN "idle" ELSE "cat"
          /\ hist' = IF v /\ hist = "none" THEN "intent" ELSE hist
    /\ UNCHANGED <<rigconn, rigPtt, lastFreq, restart, rsendq, fpc, freq, cat>>
    /\ UNCHANGED <<rotVars, wireVars, uiVars, satVars, appVars, srvVars, rigSrv, ioVars, lifeVars>>

\* manualSetPtt(False): "self.__cat.do_command(CAT_PTT_SET, False)"
ManualCat ==
    /\ mpc = "cat"
    /\ cat' = DoCommand(cat, PttOff)
    /\ mpc' = "rig"
    /\ UNCHANGED <<rigconn, ptt, rigPtt, lastFreq, restart, rsendq, fpc, freq, hist>>
    /\ UNCHANGED <<rotVars, wireVars, uiVars, satVars, appVars, srvVars, rigSrv, ioVars, lifeVars>>

\* manualSetPtt(False): "self.__rigPtt = False"
ManualRig ==
    /\ mpc = "rig"
    /\ rigPtt' = FALSE
    /\ mpc' = "idle"
    /\ UNCHANGED <<rigconn, ptt, lastFreq, restart, rsendq, fpc, freq, cat, hist>>
    /\ UNCHANGED <<rotVars, wireVars, uiVars, satVars, appVars, srvVars, rigSrv, ioVars, lifeVars>>

\* __listenCallback("M ..."): the command is tokenised and the branch chosen
RigMode ==
    /\ rlisten = "serve"
    /\ rpeer
    /\ fpc = "idle"
    /\ Len(rsendq) < MaxOutstanding
    /\ fpc' = "mode"
    /\ UNCHANGED <<rigconn, ptt, rigPtt, lastFreq, restart, rsendq, freq, mpc, cat, hist>>
    /\ UNCHANGED <<rotVars, wireVars, uiVars, satVars, appVars, srvVars, rigSrv, ioVars, lifeVars>>

\* the M branch for a command of n tokens: arg1 is bound only when n = 2 and
\* arg2 only when n = 3, and the branch reads both
setMode(n) ==
    IF n # 2 THEN "raise"
    ELSE IF n # 3 THEN "raise"
    ELSE "done"

\* __listenCallback("M ..."): the M branch for a command of two or three tokens
\* (M <mode>, M <mode> <passband>), or the handler of what it raises
RigSetMode ==
    /\ fpc = "mode"
    /\ \E n \in {2, 3}, m \in {"USB", "FM"} :
          /\ cat' = IF setMode(n) = "done" THEN DoCommand(cat, CatCmd("MODE_SET", m)) ELSE cat
          /\ rsendq' = IF setMode(n) = "done" THEN Append(rsendq, Reply("M", "RPRT 0"))
                        ELSE rsendq
          /\ msgq' = IF setMode(n) = "raise" THEN msgq \cup {"Problem with rig interface"} ELSE msgq
          /\ restart' = (restart \/ setMode(n) = "raise")
    /\ fpc' = "idle"
    /\ UNCHANGED <<rigconn, ptt, rigPtt, lastFreq, freq, mpc, hist, rigSrv>>
    /\ UNCHANGED <<rotVars, wireVars, uiVars, satVars, srvVars, evntq, ev, terminate,
                   upc, ioVars, lifeVars>>

\* __listenCallback("f\n"): "self.__cat.do_command(CAT_FREQ_GET)"
RigGetFreq ==
    /\ rlisten = "serve"
    /\ rpeer
    /\ fpc = "idle"
    /\ Len(rsendq) < MaxOutstanding
    /\ cat' = DoCommand(cat, CatCmd("FREQ_GET", 0))
    /\ fpc' = "wait"
    /\ UNCHANGED <<rigconn, ptt, rigPtt, lastFreq, restart, rsendq, freq, mpc, hist>>
    /\ UNCHANGED <<rotVars, wireVars, uiVars, satVars, appVars, srvVars, rigSrv, ioVars, lifeVars>>

\* what the CAT service may put on the response queue
CatReplies ==
    {[r |-> TRUE, cmd |-> "FREQ_GET", data |-> 145800000],
     [r |-> TRUE, cmd |-> "MODE_GET", data |-> 1],
     [r |-> FALSE, cmd |-> "FREQ_GET", data |-> 0]}
MaxCatq == 2

\* the CAT service queues a response
CatReply ==
    /\ Len(catq) < MaxCatq
    /\ \E c \in CatReplies : catq' = Append(catq, c)
    /\ UNCHANGED <<rigconn, ptt, rigPtt, lastFreq, restart, rsendq, fpc, freq, mpc, cat, hist,
                   rrun, rlisten, rpeer>>
    /\ UNCHANGED <<rotVars, wireVars, uiVars, satVars, appVars, srvVars, ioVars, lifeVars>>

\* one round of __cat_response(command) on the queue q: the queue stayed empty
\* for 5 s or the head is a successful reply to another command, and the call
\* of the message queue raises; the head is the reply waited for; or the head
\* is a failure and the loop goes round
cat_response(q, command) ==
    IF q = <<>> THEN "raise"
    ELSE IF Head(q).r
         THEN IF Head(q).cmd = command THEN "return" ELSE "raise"
         ELSE "again"

\* __listenCallback("f\n"): __cat_response(CAT_FREQ_GET) and what follows it
RigCatResponse ==
    /\ fpc = "wait"
    /\ catq' = IF catq = <<>> THEN catq ELSE Tail(catq)
    /\ fpc' = IF cat_response(catq, "FREQ_GET") = "again" THEN "wait" ELSE "idle"
    /\ rsendq' = IF cat_response(catq, "FREQ_GET") = "return"
                  THEN Append(rsendq, Reply("f", Head(catq).data)) ELSE rsendq
    /\ msgq' = IF cat_response(catq, "FREQ_GET") = "raise" THEN msgq \cup {"Problem with rig interface"}
                ELSE msgq
    /\ restart' = (restart \/ cat_response(catq, "FREQ_GET") = "raise")
    /\ UNCHANGED <<rigconn, ptt, rigPtt, lastFreq, freq, mpc, cat, hist, rrun, rlisten, rpeer>>
    /\ UNCHANGED <<rotVars, wireVars, uiVars, satVars, srvVars, evntq, ev, terminate,
                   upc, ioVars, lifeVars>>

\* __listenCallback("q\n")
RigQuit ==
    /\ rlisten = "serve"
    /\ rpeer
    /\ fpc = "idle"
    /\ Len(rsendq) < MaxOutstanding
    /\ msgq' = msgq \cup {"Request to quit from sat control program"}
    /\ restart' = TRUE
    /\ rsendq' = Append(rsendq, Reply("q", "RPRT 0"))
    /\ UNCHANGED <<rigconn, ptt, rigPtt, lastFreq, fpc, freq, mpc, cat, hist, rigSrv>>
    /\ UNCHANGED <<rotVars, wireVars, uiVars, satVars, srvVars, evntq, ev, terminate,
                   upc, ioVars, lifeVars>>

\* the tracker's connection ends while the listener is in recv(), which raises
\* (connection reset) or returns the empty string (orderly close): on an
\* exception the listener logs, sends the callback an x and leaves its loop; on
\* the empty string the callback returns at once and the loop goes round
RigDisconnect ==
    /\ rlisten = "serve"
    /\ rpeer
    /\ fpc = "idle"
    /\ rsendq = <<>>
    /\ rpeer' = FALSE
    /\ \E d \in {"reset", "closed"} :
          /\ msgq' = IF d = "reset"
                      THEN msgq \cup {"Satelite rig control disconnected",
                                      "Rig listner requested exit"}
                      ELSE msgq
          /\ restart' = (restart \/ d = "reset")
          /\ rlisten' = IF d = "reset" THEN "exited" ELSE rlisten
    /\ UNCHANGED <<rigconn, ptt, rigPtt, lastFreq, rsendq, fpc, freq, mpc, cat, hist, rrun, catq>>
    /\ UNCHANGED <<rotVars, wireVars, uiVars, satVars, srvVars, evntq, ev, terminate,
                   upc, ioVars, lifeVars>>

\* RigIf.run: the loop sees __restart, closes the listening socket and reports
\* OFFLINE; the thread ends
RigRunExit ==
    /\ rrun = "loop"
    /\ restart
    /\ rrun' = "exited"
    /\ rigconn' = OFFLINE
    /\ msgq' = msgq \cup {"Rig Interface thread exiting"}
    /\ UNCHANGED <<ptt, rigPtt, lastFreq, restart, rsendq, fpc, freq, mpc, cat, hist,
                   rlisten, rpeer, catq>>
    /\ UNCHANGED <<rotVars, wireVars, uiVars, satVars, srvVars, evntq, ev, terminate,
                   upc, ioVars, lifeVars>>

NextRig ==
    \/ RigAccept
    \/ RigSend
    \/ RigSetFreq
    \/ RigKeyCat
    \/ RigKeyed
    \/ RigGetPtt
    \/ ManualSetPtt
    \/ ManualCat
    \/ ManualRig
    \/ RigMode
    \/ RigSetMode
    \/ RigGetFreq
    \/ CatReply
    \/ RigCatResponse
    \/ RigQuit
    \/ RigDisconnect
    \/ RigRunExit

SpecRig == Init /\ [][NextRig]_vars

(***************************************************************************)
(* Properties of the rotator side.                                         *)
(***************************************************************************)
\* exchanges whose datagram was sent and whose reply has neither been received
\* nor timed out: their request or their reply is still under way
Pending(q) == {i \in 1..Len(q) : q[i].tag \in {"live", "orphan"}}

\* C1: no two rotator commands overlap on the wire: while the reply to a datagram
\* has neither been received nor timed out, the rotator mutex is held and no other
\* command datagram is under way.
C1_NoOverlap ==
    /\ Cardinality(Pending(req)) + Cardinality(Pending(rx)) <= 1
    /\ (Pending(req) # {} \/ Pending(rx) # {}) => lock

\* C2: the commands of the rotator command queue are executed in the order they
\* were appended, one at a time: producers only append at the tail, and the
\* rotator thread, only when it executes no command, takes the head.
C2_Fifo ==
    [][cmdq' # cmdq =>
          \/ /\ Len(cmdq') > Len(cmdq)
             /\ SubSeq(cmdq', 1, Len(cmdq)) = cmdq
          \/ /\ rpc = "idle"
             /\ cur = NoCmd
             /\ cmdq' = Tail(cmdq)
             /\ cur' \in {NoCmd, Head(cmdq)}]_vars

\* C2 witness: a command of one producer is executing while commands of the two
\* other producers wait behind it.
C2_Witness ==
    /\ Len(cmdq) = 2
    /\ cur # NoCmd
    /\ {cur.src, cmdq[1].src, cmdq[2].src} = {"ui", "op", "sat"}

\* C3: the reply __doCommand returns is the controller's reply to the command it
\* sent: a reply taken from the receive buffer is never the reply to an earlier
\* command.
C3_OwnReply ==
    [][Len(rx') < Len(rx) => Head(rx).tag = "live"]_vars

\* a calibration value that is a pulse count
IsPulseCount(c) == c \in CalPayloads

\* C4 as stated: status = online implies cal_az >= 0 and cal_el >= 0.
C4_Original ==
    status = ONLINE => IsPulseCount(calaz) /\ IsPulseCount(calel)

\* C4 amended: status = online implies that a persisted calibration record
\* exists (cold start presets it on the controller and leaves cal_az and cal_el
\* as they were), or that cal_az and cal_el have both been set by a calibration.
C4_Calibrated ==
    status = ONLINE => cfgCal \/ (calaz # NoCal /\ calel # NoCal)

\* C4 witness: online after a cold start from the persisted record, cal_az and
\* cal_el still at the sentinel.
C4_Witness ==
    status = ONLINE /\ cfgCal /\ calaz = NoCal /\ calel = NoCal

C10_GetPos ==
    [][(rpc = "idle" /\ cmdq # <<>> /\ Head(cmdq).cmd = "getPos" /\ cmdq' = Tail(cmdq)) =>
          /\ sendq' = Append(sendq, IF status = ONLINE
                                    THEN PosReply(degaz, degel)
                                    ELSE PosReply(Head(cmdq).a, Head(cmdq).b))
          /\ rpc' = "idle"
          /\ UNCHANGED <<status, calaz, calel, degaz, degel, lock, req, rx>>]_vars

\* C10 witness: online, the reply last appended carries the position of the
\* rotator, which differs from the tracker's hint.
C10_Witness ==
    /\ status = ONLINE
    /\ sendq # <<>>
    /\ sendq[Len(sendq)] = PosReply(degaz, degel)
    /\ degaz \in EventDegs
    /\ azimuth # degaz

\* the step in which the rotator thread executes a getPos of the tracker
GetPosStep == rpc = "idle" /\ cmdq # <<>> /\ Head(cmdq).cmd = "getPos" /\ cmdq' = Tail(cmdq)

\* C11 as stated: two consecutive p with no P between them receive the same
\* two-line payload.
C11_Original ==
    [][(GetPosStep /\ lastPos # {}) =>
          \A lp \in lastPos : sendq'[Len(sendq')] = lp.reply]_vars

\* C11 amended: two consecutive p with no P between them receive the same
\* payload when the rotator status, deg_az and deg_el are the same at both; the
\* first p changes none of them.
C11_SamePos ==
    /\ [][(GetPosStep /\ lastPos # {}) =>
             \A lp \in lastPos :
                 (lp.st = status /\ lp.daz = degaz /\ lp.dl = degel)
                    => sendq'[Len(sendq')] = lp.reply]_vars
    /\ [][GetPosStep => UNCHANGED <<status, degaz, degel, azimuth, elevation>>]_vars

\* C11 witness: online, the second p in a row was answered like the first, with
\* the position of the rotator.
C11_Witness ==
    /\ status = ONLINE
    /\ sendq # <<>>
    /\ \E lp \in lastPos :
          /\ lp.n = 2
          /\ lp.st = ONLINE
          /\ lp.reply = PosReply(degaz, degel)
          /\ sendq[Len(sendq)] = lp.reply
          /\ lp.reply # PosReply(azimuth, elevation)

\* the datagram that goes on the wire in this step, if one does
Sends(op) == Len(req') > 0 /\ req' # req /\ Len(req') >= Len(req)
             /\ req'[Len(req')].dg.op = op /\ req'[Len(req')].tag = "live"
             /\ (rpc' # rpc \/ cur' # cur)

C13_Original ==
    [](state = CAL_MANUAL /\ IsPulseCount(calaz) /\ IsPulseCount(calel)
          => <>(state = PENDING))

\* C19 as stated: when a position event "<axis>:<n>" becomes visible in the
\* position-event queue, deg_<axis> already holds n.
C19_Original ==
    [][\A e \in evntq' \ evntq :
          /\ e.what = "az" => degaz' = e.value
          /\ e.what = "el" => degel' = e.value]_vars

\* C20 as stated: after terminate() has returned the component performs no
\* further socket operation, commands still waiting in its queue included: the
\* rotator service sends no datagram, the event receiver receives no event.
C20_Original ==
    /\ [][terminate => (rpc' = rpc \/ rpc' \in {"idle", "exit"})]_vars
    /\ [][terminate => (ev' = ev /\ evntq' \subseteq evntq)]_vars

\* C30 (as stated): a malformed event datagram is logged and discarded, and
\* the event receiver keeps receiving: once one has been received there is a
\* line about it in the log, and the receiver runs until terminate().
C30_Original ==
    bad => /\ "Bad position data!" \in msgq
           /\ (evrun = "loop" \/ terminate)

\* C21 (as stated): once terminate() has been requested on the rotator
\* protocol server its thread eventually leaves run(), also when it is retrying
\* its bind.
C21_Original == [](sterm => <>(srun \in {"exited", "none"}))

C23_Original ==
    /\ [](srun = "bind" => <>(srun # "bind"))
    /\ [](srun \in {"failed", "exited"} /\ retry = 0
             => satconn = FAILED /\ slisten = "none")

\* C31 (as stated): no exception escapes a worker thread: the event receiver
\* is never ended by an exception raised while it handles a datagram.
C31_Original == evrun # "raised"

\* a command ends on an exchange that timed out or was answered nak
FailedStep ==
    rpc # "idle" /\ rpc' = "idle" /\ (rx = <<>> \/ Head(rx).data = "nak")

\* C32 (as stated): every rotator command that fails, by a timeout or a nak
\* reply, leaves an error line on the log queue.
C32_Original == [][FailedStep => "Error executing command" \in msgq']_vars

\* C34 (as stated): with a saved calibration and a controller that
\* acknowledges every command, the coordinator's state eventually becomes
\* online, from every reachable state.
C34_Original == [](cfgCal => <>(state = ONLINE))

\* C35 (as stated): while the coordinator's state is offline the rotator
\* service sends no home, move, speed or preset datagram: only poll goes to
\* the controller.
C35_Original ==
    [][state = OFFLINE /\ cur = NoCmd
          => ~(\E op \in {"homeaz", "homeel", "z", "e", "n", "m", "a", "b"} : Sends(op))]_vars

\* C37 (as stated): the rotator protocol server reports ONLINE only when a
\* connection has been accepted, and its listener never operates on a
\* connection that is missing.
C37_Original ==
    /\ [][satconn' = ONLINE /\ satconn # ONLINE => slisten' = "serve"]_vars
    /\ [](slisten # "raised")

\* C40 (as stated): whenever no rotator command is executing the rotator
\* mutex is free.
C40_Original == cur = NoCmd => ~lock

\* the callback has just logged a q
QuitStep ==
    "Request to quit listening" \in msgq' /\ "Request to quit listening" \notin msgq

\* the SatIf thread reacts to the restart request
RestartStep == satRestart /\ srun = "loop" /\ srun' = "exited"

\* C14 (as stated): on q the server replies "RPRT 0\n" and, when it restarts,
\* goes back to accepting: the listener waits for a connection and the status
\* is WAITING again, the tracking box untouched.
C14_Original ==
    /\ [][QuitStep => sendq' = Append(sendq, RPRT0)]_vars
    /\ [][RestartStep => (slisten' = "accept" /\ satconn' = WAITING
                          /\ rottrack' = rottrack)]_vars

\* the callback has just logged a malformed command
MalformedStep ==
    \E k \in BadP : HandleBadP(k).msg \in msgq' /\ HandleBadP(k).msg \notin msgq

\* C15 (as stated): a malformed command is logged and still answered with
\* "RPRT 0\n", and the session goes on: no restart is requested.
C15_Original ==
    [][MalformedStep => (sendq' = Append(sendq, RPRT0) /\ satRestart' = satRestart)]_vars

\* C24: the calibration record changes only when calaz and calel are both
\* set, and then it holds both; when either is -1 at shutdown the record is
\* left as it was.
C24_SaveCal ==
    /\ [][cfg' # cfg => (calaz # NoCal /\ calel # NoCal
                          /\ cfg' = {[AZ |-> calaz, EL |-> calel]})]_vars
    /\ [][(~terminate /\ terminate' /\ (calaz = NoCal \/ calel = NoCal))
             => cfg' = cfg]_vars

\* C24 witness: shut down with one axis calibrated only, the record untouched.
C24_Witness ==
    /\ terminate
    /\ calaz # NoCal
    /\ calel = NoCal
    /\ cfg = {}

\* the step in which the rotator thread takes a setPosAz / setPosEl from the queue
ServiceStep(cmd) ==
    rpc = "idle" /\ cmdq # <<>> /\ Head(cmdq).cmd = cmd /\ cmdq' = Tail(cmdq)

\* C25 (as stated): a setPosAz (setPosEl) serviced while deg_az (deg_el) is -1
\* puts the home command of the axis on the wire, and the move goes out only
\* with a known position or as the continuation of that home.
C25_Original ==
    /\ [][ServiceStep("setPosAz") /\ degaz = -1 => Sends("homeaz")]_vars
    /\ [][ServiceStep("setPosEl") /\ degel = -1 => Sends("homeel")]_vars
    /\ [][Sends("z") => (degaz # -1 \/ rpc = "spaz_home")]_vars
    /\ [][Sends("e") => (degel # -1 \/ rpc = "spel_home")]_vars

\* C36 (as stated): a home of the azimuth that timed out or was answered nak,
\* or that was skipped because the status is OFFLINE, leaves deg_az as it was.
C36_Original ==
    /\ [][(rpc \in {"homeaz", "spaz_home"} /\ rpc' # rpc
             /\ (rx = <<>> \/ Head(rx).data = "nak")) => degaz' = degaz]_vars
    /\ [][((ServiceStep("homeAz") \/ ServiceStep("setPosAz")) /\ status = OFFLINE)
             => degaz' = degaz]_vars

\* the rotator thread leaves an exchange of the cold start
ColdStepEnds ==
    /\ rpc \in {"cs_azspeed", "cs_elspeed", "cs_calaz", "cs_calel", "cs_setcalaz",
                "cs_setcalel"}
    /\ rpc' # rpc

\* C26 (as stated): a cold-start step that times out or is answered nak makes
\* the status cal-failed and ends the cold start with nothing more sent; the
\* cold start goes on, or online, only on the controller's answer to the step
\* in hand, and that answer is not nak.
C26_Original ==
    /\ [][ColdStepEnds /\ (rx = <<>> \/ Head(rx).data = "nak") =>
            (status' = CAL_FAILED /\ rpc' = "idle" /\ Len(req') <= Len(req))]_vars
    /\ [][ColdStepEnds /\ status' # CAL_FAILED =>
            (rx # <<>> /\ Head(rx).tag = "live" /\ Head(rx).data # "nak")]_vars

\* C27 (as stated): the status of the rotator service changes only offline ->
\* pending (ending a poll), pending -> online and pending -> cal-failed (ending
\* a cold start), cal-failed -> offline, and online -> offline (ending an
\* is_online).
C27_Original ==
    [][status' # status =>
          \/ status = OFFLINE /\ status' = PENDING /\ rpc = "poll"
          \/ status = PENDING /\ status' \in {ONLINE, CAL_FAILED}
                /\ rpc \in {"cs_azspeed", "cs_elspeed", "cs_calaz", "cs_calel",
                            "cs_setcalaz", "cs_setcalel"}
          \/ status = CAL_FAILED /\ status' = OFFLINE
          \/ status = ONLINE /\ status' = OFFLINE /\ rpc = "isonline"]_vars

\* C28 (as stated): once everything the tracker wrote has been read, the
\* commands handled are the commands written, each once and in order, however
\* the reads cut the bytes.
C28_Original == pending = <<>> => handled = sent

(***************************************************************************)
(* Properties of the rig side.                                             *)
(***************************************************************************)
\* the reply the callback has just queued answers the command c
Answers(c) == Len(rsendq') = Len(rsendq) + 1 /\ rsendq'[Len(rsendq')].to = c

\* C5: rig_ptt is true only in states reached after ptt_intent was set to true
\* and, following that, an F moved the frequency by more than 100 kHz.
C5_KeyedAfterJump ==
    (rigPtt \/ fpc \in {"key", "rig"}) => hist = "jump"

\* C5 witness: the transmitter is keyed.
C5_Witness ==
    rigPtt /\ ptt /\ fpc = "idle"

\* C6 as stated: F keys the transmitter (CAT_PTT_SET(true) sent, rig_ptt := true)
\* if and only if ptt_intent is true and |hz - last_freq_hz| > 100000; in every
\* case last_freq_hz becomes hz and the tracker is answered RPRT 0.
C6_Original ==
    /\ [][Answers("F") =>
             /\ rsendq'[Len(rsendq')].line = "RPRT 0"
             /\ (fpc' = "key") <=> (ptt /\ Jump(lastFreq, freq'))
             /\ (fpc' = "idle") => lastFreq' = {freq'}]_vars
    /\ [][(fpc = "key" /\ fpc' # "key") =>
             /\ cat'.cmd = CatCmd("PTT_SET", TRUE)
             /\ fpc' = "rig"]_vars
    /\ [][(fpc = "rig" /\ fpc' # "rig") =>
             /\ rigPtt'
             /\ lastFreq' = {freq}]_vars

\* C7: manual_set_ptt(false) at once sends CAT_PTT_SET(false) and sets rig_ptt
\* to false; manual_set_ptt(true) only sets ptt_intent and sends nothing to CAT.
C7_ManualPtt ==
    /\ [][(~ptt /\ ptt') =>
             /\ cat' = cat
             /\ rigPtt' = rigPtt
             /\ mpc' = "idle"]_vars
    /\ [][(mpc = "idle" /\ mpc' # "idle") =>
             /\ ~ptt'
             /\ mpc' = "cat"
             /\ cat' = cat]_vars
    /\ [][(mpc = "cat" /\ mpc' # "cat") =>
             /\ cat' = [cmd |-> CatCmd("PTT_SET", FALSE), bit |-> 1 - cat.bit]
             /\ mpc' = "rig"]_vars
    /\ [][(mpc = "rig" /\ mpc' # "rig") =>
             /\ ~rigPtt'
             /\ mpc' = "idle"]_vars

\* C7 witness: PTT was switched off with the transmitter keyed in the TX band;
\* CAT_PTT_SET(false) was the last thing sent and rig_ptt is false.
C7_Witness ==
    /\ mpc = "idle"
    /\ ~ptt
    /\ ~rigPtt
    /\ hist = "jump"
    /\ cat.cmd = CatCmd("PTT_SET", FALSE)

\* C8: t is answered 1 if ptt_intent is true and 0 if it is false, whatever
\* rig_ptt is, and sends nothing to CAT.
C8_GetPtt ==
    [][Answers("t") =>
          /\ rsendq'[Len(rsendq')].line = (IF ptt THEN "1" ELSE "0")
          /\ cat' = cat
          /\ UNCHANGED <<ptt, rigPtt>>]_vars

\* C8 witness: t was answered 1 while the transmitter is not keyed.
C8_Witness ==
    /\ rsendq # <<>>
    /\ rsendq[Len(rsendq)] = Reply("t", "1")
    /\ ptt
    /\ ~rigPtt

\* the M branch of the callback has just run
ModeStep == fpc = "mode" /\ fpc' = "idle"

\* C16 (as stated): M <mode> <passband> hands CAT_MODE_SET(mode) to the CAT
\* service, queues "RPRT 0\n" for the tracker and requests no restart.
C16_Original ==
    [][ModeStep => (cat'.cmd.op = "MODE_SET" /\ Answers("M") /\ restart' = restart)]_vars

\* __cat_response(CAT_FREQ_GET) has just taken a successful reply to another
\* command from the head of the queue
MismatchStep ==
    /\ fpc = "wait"
    /\ catq # <<>>
    /\ Head(catq).r
    /\ Head(catq).cmd # "FREQ_GET"
    /\ catq' = Tail(catq)

\* C17 (as stated): a successful reply to another operation at the head of the
\* queue is logged and discarded, the handler goes on waiting for its own
\* reply, and no restart is requested.
C17_Original ==
    [][MismatchStep => (/\ "Expected CAT response" \in msgq'
                        /\ fpc' = "wait"
                        /\ restart' = restart)]_vars

\* __cat_response(CAT_FREQ_GET) has just given up on an empty queue
TimeoutStep == fpc = "wait" /\ catq = <<>> /\ fpc' # "wait"

\* C29 (as stated): when no reply arrives within the window the handler stops
\* waiting, a timeout line is logged, and the session is kept: no restart is
\* requested and the tracker's connection stays.
C29_Original ==
    [][TimeoutStep => (/\ "Timeout on CAT response" \in msgq'
                       /\ restart' = restart
                       /\ rlisten' = rlisten
                       /\ rpeer' = rpeer)]_vars

\* the tracker's connection to the rig server has just ended
DisconnectStep == rpeer /\ ~rpeer'

\* the RigIf thread reacts to the restart request after a disconnect
RigRestartStep == ~rpeer /\ restart /\ rrun = "loop" /\ rrun' = "exited"

\* C18 (as stated): when the tracker's connection ends while the rig is keyed,
\* the disconnect is logged and both PTT flags keep their values, and the
\* restart that follows puts the server back to accepting a connection.
C18_Original ==
    /\ [][DisconnectStep /\ rigPtt =>
            (/\ "Satelite rig control disconnected" \in msgq'
             /\ ptt' = ptt
             /\ rigPtt' = rigPtt)]_vars
    /\ [][RigRestartStep /\ rigPtt => (rlisten' = "accept" /\ rigconn' = WAITING)]_vars

\* C38 (as stated): once the rig protocol server has ended its session (its
\* thread has reported OFFLINE and left run()), its listener takes up no
\* further command of the tracker: nothing more is answered or handed to CAT
\* by the callback.
C38_Original ==
    [][rrun = "exited" /\ fpc = "idle"
          => fpc' = "idle" /\ Len(rsendq') <= Len(rsendq) /\ (cat' = cat \/ mpc # "idle")]_vars

\* C39 (as stated): handling F <hz> with an integer hz never makes the rig
\* server restart, the first F received with ptt_intent true included.
C39_Original == [][Answers("F") => restart' = restart]_vars

====
